---- MODULE Spec2Model ----
(***************************************************************************)
(* Model of src/app/main.py: a Flask application with one process-wide     *)
(* cProfile.Profile collector, the instrumented work unit of GET /         *)
(* (profile_function), the snapshot + export + response cycle of           *)
(* GET /profile (get_profile) and the projection of a pstats.Stats object  *)
(* onto three OpenTelemetry histograms (export_profile_stats).             *)
(*                                                                         *)
(* Request threads interleave at the granularity of the statements of the  *)
(* handlers.  Times are fixed-point seconds: a value t stands for          *)
(* t / TimeDen seconds.                                                    *)
(***************************************************************************)
EXTENDS Integers, Sequences, FiniteSets, Bags, TLC

\* ------------------------------------------------------------------ bounds
NumWorkers == 2      \* threads serving GET /
NumHandlers == 2     \* threads serving GET /profile
MaxHello == 1        \* requests each GET / thread serves
MaxProfile == 1      \* requests each GET /profile thread serves
MaxRecords == 2      \* records of an arbitrary snapshot given to the exporter
MaxExports == 2      \* calls of the exporter on one snapshot

\* --------------------------------------------------------------- constants
TimeDen == 100       \* time values are hundredths of a second
SumCost == 2         \* sum(range(1000000)), in 1/TimeDen s
SleepCost == 10      \* time.sleep(0.1), in 1/TimeDen s
MsPerSecond == 1000  \* the factor of "tt * 1000"

Workers == 1..NumWorkers
Handlers == (NumWorkers + 1)..(NumWorkers + NumHandlers)

\* ------------------------------------------------------ profiler (cProfile)
\* Keys under which cProfile files the two calls made between enable() and
\* disable(): built-ins have file "~" and line 0.
SumKey == <<"~", 0, "<built-in method builtins.sum>">>
SleepKey == <<"~", 0, "<built-in method time.sleep>">>

NoEntries == [k \in {} |-> [cc |-> 0, nc |-> 0, tt |-> 0, ct |-> 0]]

\* profiler = cProfile.Profile(): not collecting, nothing collected.
NewProfile == [enabled |-> FALSE, entries |-> NoEntries]

\* One more finished, non-recursive call of `key` that took `cost`.
\* Entries are in pstats order: cc primitive calls, nc all calls, tt own
\* time, ct cumulative time.
AddCall(entries, key, cost) ==
    LET old == IF key \in DOMAIN entries THEN entries[key]
               ELSE [cc |-> 0, nc |-> 0, tt |-> 0, ct |-> 0]
    IN  (key :> [cc |-> old.cc + 1, nc |-> old.nc + 1,
                 tt |-> old.tt + cost, ct |-> old.ct + cost]) @@ entries

\* A call made by the instrumented code is collected only while the
\* collector is enabled.
ObserveCall(prof, key, cost) ==
    IF prof.enabled THEN [prof EXCEPT !.entries = AddCall(@, key, cost)]
    ELSE prof

\* An enable() that has no effect.
EnableProfile_Forgotten(prof) == prof

\* profiler.enable() on a collector that is not collecting.
EnableProfile(prof) == [prof EXCEPT !.enabled = TRUE]

\* profiler.disable(): stops collecting, keeps what was collected; no error
\* when already disabled.
DisableProfile(prof) == [prof EXCEPT !.enabled = FALSE]

\* Outcomes of profiler.enable() on a collector that is already collecting.
\* The code does not guard the call and the interpreter decides: CPython up
\* to 3.11 re-installs the hook silently, CPython 3.12 and later raise
\* ValueError("Another profiling tool is already active").
ReEnableOutcomes == {"noop", "raise"}

\* ---------------------------------------------------------- pstats.Stats
RECURSIVE SumOver(_, _, _)
SumOver(entries, keys, field) ==
    IF keys = {} THEN 0
    ELSE LET k == CHOOSE x \in keys : TRUE
         IN  entries[k][field] + SumOver(entries, keys \ {k}, field)

\* pstats.Stats(filename): load_stats + get_top_level_stats.  total_calls
\* sums nc, prim_calls sums cc, total_tt sums tt.
LoadStats(entries) ==
    [stats |-> entries,
     total_calls |-> SumOver(entries, DOMAIN entries, "nc"),
     prim_calls |-> SumOver(entries, DOMAIN entries, "cc"),
     total_tt |-> SumOver(entries, DOMAIN entries, "tt")]

NoStats == LoadStats(NoEntries)

\* stats.sort_stats('cumulative'): an order of the keys with cumulative time
\* descending.
IsCumulativeOrder(order, st) ==
    /\ Len(order) = Cardinality(DOMAIN st.stats)
    /\ {order[i] : i \in 1..Len(order)} = DOMAIN st.stats
    /\ \A i \in 1..Len(order) : \A j \in 1..Len(order) :
          i < j => st.stats[order[i]].ct >= st.stats[order[j]].ct

RECURSIVE Orders(_)
Orders(keys) ==
    IF keys = {} THEN {<<>>}
    ELSE UNION {{<<k>> \o rest : rest \in Orders(keys \ {k})} : k \in keys}

\* ------------------------------------------------------------- telemetry
NoAttributes == [a \in {} |-> ""]

\* attributes = {"function.name": funcname, "function.file": filename}
Attributes(funcname, filename) ==
    ("function.name" :> funcname) @@ ("function.file" :> filename)

\* str(func) for the keys the model uses that are not 3-tuples.
StrOf(func) ==
    CASE func = <<"x", 7>> -> "('x', 7)"
      [] func = <<"solo">> -> "('solo',)"
      [] OTHER -> "(...)"

\* A fallback that takes the first component of a short key for the file.
FuncInfo_FirstAsFile(func) ==
    IF Len(func) = 3 THEN [filename |-> func[1], funcname |-> func[3]]
    ELSE [filename |-> func[1], funcname |-> StrOf(func)]

\* Lines 109-112: the name and file of a key.
FuncInfo(func) ==
    IF Len(func) = 3 THEN [filename |-> func[1], funcname |-> func[3]]
    ELSE [filename |-> "unknown", funcname |-> StrOf(func)]

\* Seconds to milliseconds: "tt * 1000".
Ms(t) == (t * MsPerSecond) \div TimeDen

\* instrument.record(value, attributes): one more observation.  `func` is
\* the record the observation was made for (NoFunc for the grand total).
NoFunc == <<"">>

\* An instrument that drops an observation equal to one it already has.
Record_Once(log, metric, value, attributes, func) ==
    log (+) SetToBag({[metric |-> metric, value |-> value,
                       attributes |-> attributes, func |-> func]}
                     \ BagToSet(log))

Record(log, metric, value, attributes, func) ==
    log (+) SetToBag({[metric |-> metric, value |-> value,
                       attributes |-> attributes, func |-> func]})

\* A loop that passes over the functions that were never called.
RecordFunction_SkipZero(log, func, rec) ==
    IF rec.nc = 0 THEN log
    ELSE LET info == FuncInfo(func)
             attributes == Attributes(info.funcname, info.filename)
         IN  Record(Record(log, "profile.function.calls", rec.cc, attributes, func),
                    "profile.function.time", Ms(rec.tt), attributes, func)

\* Lines 115-121: the two observations of one record.
RecordFunction(log, func, rec) ==
    LET info == FuncInfo(func)
        attributes == Attributes(info.funcname, info.filename)
    IN  Record(Record(log, "profile.function.calls", rec.cc, attributes, func),
               "profile.function.time", Ms(rec.tt), attributes, func)

\* Line 124: the grand total, no attributes.
RecordTotal(log, st) ==
    Record(log, "profile.total.time", Ms(st.total_tt), NoAttributes, NoFunc)

\* Lines 103-104: the two span attributes.
SpanAttributes(st) ==
    ("profile.total_calls" :> st.total_calls) @@ ("profile.total_time" :> st.total_tt)

NoSpan == ("profile.total_calls" :> 0) @@ ("profile.total_time" :> 0)

\* The duration (ms) a request measures between lines 78 and 91.
Durations == {Ms(SumCost + SleepCost)}

VARIABLES
    profiler,           \* the global cProfile.Profile
    function_duration,  \* histogram function.duration: bag of observations
    function_calls,     \* counter function.calls
    hpc,                \* GET / threads: position in hello/profile_function
    hruns,              \* GET / threads: requests started
    ops,                \* GET / threads: steps the current execution made
    lost,               \* GET / threads: work steps of the current execution
                        \*   made while the collector was off
    returned,           \* GET / requests that returned "Hello World!"
    raised,             \* GET / requests ended by an exception
    lastDisable,        \* the request that last switched the collector off
    ppc,                \* GET /profile threads: position in get_profile
    pruns,              \* GET /profile threads: requests started
    file,               \* GET /profile threads: content of the temp file
    stats,              \* GET /profile threads: the pstats.Stats object
    todo,               \* exporter: records the for loop has not visited
    span,               \* exporter: attributes of the export span
    obs,                \* GET /profile threads: observations they recorded
    mark,               \* obs at the start of the current export call
    before,             \* stats at the start of the current export call
    last,               \* result of the previous export call
    exports,            \* export calls made on the current snapshot
    snapshots,          \* number of collector snapshots taken so far
    snap,               \* GET /profile threads: when their snapshot was taken
    table,              \* GET /profile threads: the printed order of the keys
    worked,             \* work steps made by GET / requests so far
    responses           \* the /profile responses, in the order returned

hvars == <<hpc, hruns, ops, lost, returned, raised, function_duration, function_calls>>
pvars == <<ppc, pruns, file, stats, snap, table, responses, snapshots>>
evars == <<todo, span, obs, mark, before, last, exports>>
vars == <<profiler, lastDisable, worked, hvars, pvars, evars>>

NoSnap == [idx |-> 0, worked |-> 0]
NoCall == [made |-> FALSE, stats |-> NoStats, span |-> NoSpan, obs |-> EmptyBag]

\* State after module import: lines 40-74.
Init ==
    /\ profiler = NewProfile
    /\ function_duration = EmptyBag
    /\ function_calls = 0
    /\ hpc = [w \in Workers |-> "idle"]
    /\ hruns = [w \in Workers |-> 0]
    /\ ops = [w \in Workers |-> <<>>]
    /\ lost = [w \in Workers |-> 0]
    /\ returned = 0
    /\ raised = 0
    /\ lastDisable = 0
    /\ worked = 0
    /\ ppc = [p \in Handlers |-> "idle"]
    /\ pruns = [p \in Handlers |-> 0]
    /\ file = [p \in Handlers |-> NoEntries]
    /\ stats = [p \in Handlers |-> NoStats]
    /\ snap = [p \in Handlers |-> NoSnap]
    /\ table = [p \in Handlers |-> <<>>]
    /\ responses = <<>>
    /\ snapshots = 0
    /\ todo = [p \in Handlers |-> {}]
    /\ span = [p \in Handlers |-> NoSpan]
    /\ obs = [p \in Handlers |-> EmptyBag]
    /\ mark = [p \in Handlers |-> EmptyBag]
    /\ before = [p \in Handlers |-> NoStats]
    /\ last = [p \in Handlers |-> NoCall]
    /\ exports = [p \in Handlers |-> 0]

\* ----------------------------------------------- GET / : hello, lines 126-132
\* A request arrives; profile_function reads start_time (line 78).
HelloStart(w) ==
    /\ hpc[w] = "idle"
    /\ hruns[w] < MaxHello
    /\ hpc' = [hpc EXCEPT ![w] = "enable"]
    /\ hruns' = [hruns EXCEPT ![w] = @ + 1]
    /\ ops' = [ops EXCEPT ![w] = <<>>]
    /\ lost' = [lost EXCEPT ![w] = 0]
    /\ UNCHANGED <<profiler, lastDisable, worked, returned, raised,
                   function_duration, function_calls, pvars, evars>>

\* Line 81: profiler.enable() on a collector that is off.
Enable(w) ==
    /\ hpc[w] = "enable"
    /\ ~profiler.enabled
    /\ profiler' = EnableProfile(profiler)
    /\ hpc' = [hpc EXCEPT ![w] = "sum"]
    /\ ops' = [ops EXCEPT ![w] = Append(@, "enable")]
    /\ UNCHANGED <<lastDisable, worked, hruns, lost, returned, raised,
                   function_duration, function_calls, pvars, evars>>

\* Line 81: profiler.enable() on a collector another request switched on.
\* Either nothing happens, or the call raises and the request ends with
\* the exception (nothing after line 81 runs).
ReEnable(w) ==
    /\ hpc[w] = "enable"
    /\ profiler.enabled
    /\ \E outcome \in ReEnableOutcomes :
          IF outcome = "noop"
          THEN /\ hpc' = [hpc EXCEPT ![w] = "sum"]
               /\ ops' = [ops EXCEPT ![w] = Append(@, "enable")]
               /\ raised' = raised
          ELSE /\ hpc' = [hpc EXCEPT ![w] = "idle"]
               /\ ops' = [ops EXCEPT ![w] = Append(@, "enable raised")]
               /\ raised' = raised + 1
    /\ UNCHANGED <<profiler, lastDisable, worked, hruns, lost, returned,
                   function_duration, function_calls, pvars, evars>>

\* Line 84: result = sum(range(1000000)).
WorkSum(w) ==
    /\ hpc[w] = "sum"
    /\ profiler' = ObserveCall(profiler, SumKey, SumCost)
    /\ lost' = [lost EXCEPT ![w] = IF profiler.enabled THEN @ ELSE @ + 1]
    /\ worked' = worked + 1
    /\ hpc' = [hpc EXCEPT ![w] = "sleep"]
    /\ UNCHANGED <<lastDisable, hruns, ops, returned, raised,
                   function_duration, function_calls, pvars, evars>>

\* Line 85: time.sleep(0.1).
WorkSleep(w) ==
    /\ hpc[w] = "sleep"
    /\ profiler' = ObserveCall(profiler, SleepKey, SleepCost)
    /\ lost' = [lost EXCEPT ![w] = IF profiler.enabled THEN @ ELSE @ + 1]
    /\ worked' = worked + 1
    /\ hpc' = [hpc EXCEPT ![w] = "disable"]
    /\ ops' = [ops EXCEPT ![w] = Append(@, "work")]
    /\ UNCHANGED <<lastDisable, hruns, returned, raised,
                   function_duration, function_calls, pvars, evars>>

\* Line 88: profiler.disable().
Disable(w) ==
    /\ hpc[w] = "disable"
    /\ profiler' = DisableProfile(profiler)
    /\ lastDisable' = IF profiler.enabled THEN w ELSE lastDisable
    /\ hpc' = [hpc EXCEPT ![w] = "record"]
    /\ ops' = [ops EXCEPT ![w] = Append(@, "disable")]
    /\ UNCHANGED <<worked, hruns, lost, returned, raised,
                   function_duration, function_calls, pvars, evars>>

\* Lines 91-92: function_duration.record(duration).
RecordDuration(w) ==
    /\ hpc[w] = "record"
    /\ \E d \in Durations :
          function_duration' = function_duration (+) SetToBag({d})
    /\ hpc' = [hpc EXCEPT ![w] = "add"]
    /\ ops' = [ops EXCEPT ![w] = Append(@, "duration")]
    /\ UNCHANGED <<profiler, lastDisable, worked, hruns, lost, returned, raised,
                   function_calls, pvars, evars>>

\* Line 93: function_calls.add(1).
AddCalls(w) ==
    /\ hpc[w] = "add"
    /\ function_calls' = function_calls + 1
    /\ hpc' = [hpc EXCEPT ![w] = "return"]
    /\ ops' = [ops EXCEPT ![w] = Append(@, "calls")]
    /\ UNCHANGED <<profiler, lastDisable, worked, hruns, lost, returned, raised,
                   function_duration, pvars, evars>>

\* Lines 95, 130-132: the result goes to the span, the response is sent.
HelloReturn(w) ==
    /\ hpc[w] = "return"
    /\ returned' = returned + 1
    /\ hpc' = [hpc EXCEPT ![w] = "idle"]
    /\ UNCHANGED <<profiler, lastDisable, worked, hruns, ops, lost, raised,
                   function_duration, function_calls, pvars, evars>>

\* ------------------------------------- GET /profile : get_profile, 134-156
\* A request arrives; the span and the temporary file are opened
\* (lines 136-138).
ProfileStart(p) ==
    /\ ppc[p] = "idle"
    /\ pruns[p] < MaxProfile
    /\ ppc' = [ppc EXCEPT ![p] = "dump_disable"]
    /\ pruns' = [pruns EXCEPT ![p] = @ + 1]
    /\ file' = [file EXCEPT ![p] = NoEntries]
    /\ stats' = [stats EXCEPT ![p] = NoStats]
    /\ table' = [table EXCEPT ![p] = <<>>]
    /\ UNCHANGED <<profiler, lastDisable, worked, hvars, snap, responses,
                   snapshots, evars>>

\* Line 139, first half: dump_stats calls create_stats, which begins with
\* self.disable().
DumpDisable(p) ==
    /\ ppc[p] = "dump_disable"
    /\ profiler' = DisableProfile(profiler)
    /\ lastDisable' = IF profiler.enabled THEN p ELSE lastDisable
    /\ ppc' = [ppc EXCEPT ![p] = "dump_snapshot"]
    /\ UNCHANGED <<worked, hvars, pruns, file, stats, snap, table, responses,
                   snapshots, evars>>

\* What snapshot_stats copies out of the collector.
SnapshotEntries(prof) == prof.entries

\* A snapshot that empties the collector.
ProfileAfterSnapshot_Reset(prof) == [prof EXCEPT !.entries = NoEntries]

\* What the collector holds after snapshot_stats.
ProfileAfterSnapshot(prof) == prof

\* Line 139, second half: snapshot_stats reads the collector and the copy is
\* written to the temporary file.
DumpSnapshot(p) ==
    /\ ppc[p] = "dump_snapshot"
    /\ file' = [file EXCEPT ![p] = SnapshotEntries(profiler)]
    /\ profiler' = ProfileAfterSnapshot(profiler)
    /\ snapshots' = snapshots + 1
    /\ snap' = [snap EXCEPT ![p] = [idx |-> snapshots + 1, worked |-> worked]]
    /\ ppc' = [ppc EXCEPT ![p] = "load"]
    /\ UNCHANGED <<lastDisable, worked, hvars, pruns, stats, table, responses,
                   evars>>

\* pstats.Stats(filename) raises TypeError("Cannot create or construct a
\* ... object from ...") when the file holds no entries.
LoadFails(entries) == DOMAIN entries = {}

\* Line 145 on an empty file: the exception ends the request.
LoadRaises(p) ==
    /\ ppc[p] = "load"
    /\ LoadFails(file[p])
    /\ ppc' = [ppc EXCEPT ![p] = "failed"]
    /\ UNCHANGED <<profiler, lastDisable, worked, hvars, pruns, file, stats,
                   snap, table, responses, snapshots, evars>>

\* Lines 145-147: the Stats object is built from the file, sorted by
\* cumulative time and printed into the string buffer.
Load(p) ==
    /\ ppc[p] = "load"
    /\ ~LoadFails(file[p])
    /\ stats' = [stats EXCEPT ![p] = LoadStats(file[p])]
    /\ \E order \in Orders(DOMAIN file[p]) :
          /\ IsCumulativeOrder(order, LoadStats(file[p]))
          /\ table' = [table EXCEPT ![p] = order]
    /\ exports' = [exports EXCEPT ![p] = 0]
    /\ last' = [last EXCEPT ![p] = NoCall]
    /\ ppc' = [ppc EXCEPT ![p] = "export"]
    /\ UNCHANGED <<profiler, lastDisable, worked, hvars, pruns, file, snap,
                   responses, snapshots, todo, span, obs, mark, before>>

\* The failed request is over; the thread takes the next one.
ProfileFailed(p) ==
    /\ ppc[p] = "failed"
    /\ ppc' = [ppc EXCEPT ![p] = "idle"]
    /\ UNCHANGED <<profiler, lastDisable, worked, hvars, pruns, file, stats,
                   snap, table, responses, snapshots, evars>>

\* ------------------------------------------- export_profile_stats, 97-124
\* Lines 99-104: the span is started and gets its two attributes; the for
\* loop starts on the items of stats.stats.
ExportBegin(p) ==
    /\ ppc[p] = "export"
    /\ span' = [span EXCEPT ![p] = SpanAttributes(stats[p])]
    /\ todo' = [todo EXCEPT ![p] = DOMAIN stats[p].stats]
    /\ mark' = [mark EXCEPT ![p] = obs[p]]
    /\ before' = [before EXCEPT ![p] = stats[p]]
    /\ exports' = [exports EXCEPT ![p] = @ + 1]
    /\ ppc' = [ppc EXCEPT ![p] = "loop"]
    /\ UNCHANGED <<profiler, lastDisable, worked, hvars, pruns, file, stats,
                   snap, table, responses, snapshots, obs, last>>

\* Lines 107-121: one iteration of the for loop.  A dict is iterated in its
\* insertion order, which the caller of the exporter decides: any order.
ExportRecord(p) ==
    /\ ppc[p] = "loop"
    /\ \E func \in todo[p] :
          /\ obs' = [obs EXCEPT ![p] = RecordFunction(@, func, stats[p].stats[func])]
          /\ todo' = [todo EXCEPT ![p] = @ \ {func}]
    /\ UNCHANGED <<profiler, lastDisable, worked, hvars, pvars, span, mark,
                   before, last, exports>>

\* Line 124: after the loop the grand total is recorded and the span ends.
ExportTotal(p) ==
    /\ ppc[p] = "loop"
    /\ todo[p] = {}
    /\ obs' = [obs EXCEPT ![p] = RecordTotal(@, stats[p])]
    /\ ppc' = [ppc EXCEPT ![p] = "respond"]
    /\ UNCHANGED <<profiler, lastDisable, worked, hvars, pruns, file, stats,
                   snap, table, responses, snapshots, todo, span, mark, before,
                   last, exports>>

\* Lines 152-156: the JSON response.
Response(p) ==
    [by |-> p,
     profile_data |-> table[p],
     total_calls |-> stats[p].total_calls,
     total_time |-> stats[p].total_tt,
     snap |-> snap[p]]

Respond(p) ==
    /\ ppc[p] = "respond"
    /\ responses' = Append(responses, Response(p))
    /\ ppc' = [ppc EXCEPT ![p] = "idle"]
    /\ UNCHANGED <<profiler, lastDisable, worked, hvars, pruns, file, stats,
                   snap, table, snapshots, evars>>

\* What the current export call recorded.
Emitted(p) == obs[p] (-) mark[p]

Next ==
    \/ \E w \in Workers :
          \/ HelloStart(w)
          \/ Enable(w)
          \/ ReEnable(w)
          \/ WorkSum(w)
          \/ WorkSleep(w)
          \/ Disable(w)
          \/ RecordDuration(w)
          \/ AddCalls(w)
          \/ HelloReturn(w)
    \/ \E p \in Handlers :
          \/ ProfileStart(p)
          \/ DumpDisable(p)
          \/ DumpSnapshot(p)
          \/ LoadRaises(p)
          \/ Load(p)
          \/ ProfileFailed(p)
          \/ ExportBegin(p)
          \/ ExportRecord(p)
          \/ ExportTotal(p)
          \/ Respond(p)

Spec == Init /\ [][Next]_vars

\* ------------------------------------------------ the exporter on its own
\* export_profile_stats takes any object with total_calls, total_tt and a
\* stats dict.  The keys: two functions of one file that differ in the line
\* only, a 2-component key and a 1-component key.
ExportKeys == {<<"a.py", 1, "foo">>, <<"a.py", 2, "foo">>, <<"x", 7>>, <<"solo">>}

\* Record values: all-zero, a plain function (5 calls, 0.10 s own and 0.20 s
\* cumulative time) and a recursive one (1 primitive call out of 3).
RecordValues ==
    {[cc |-> 0, nc |-> 0, tt |-> 0, ct |-> 0],
     [cc |-> 5, nc |-> 5, tt |-> 10, ct |-> 20],
     [cc |-> 1, nc |-> 3, tt |-> 4, ct |-> 4]}

\* Time of the aggregate that no record accounts for.
ExtraTime == {0, 15}

Snapshots ==
    UNION {UNION {{[LoadStats(entries) EXCEPT !.total_tt = @ + extra] :
                      extra \in ExtraTime} :
                  entries \in [keys -> RecordValues]} :
           keys \in {ks \in SUBSET ExportKeys : Cardinality(ks) <= MaxRecords}}

Exporter == NumWorkers + 1

InitExport ==
    /\ profiler = NewProfile
    /\ function_duration = EmptyBag
    /\ function_calls = 0
    /\ hpc = [w \in Workers |-> "idle"]
    /\ hruns = [w \in Workers |-> 0]
    /\ ops = [w \in Workers |-> <<>>]
    /\ lost = [w \in Workers |-> 0]
    /\ returned = 0
    /\ raised = 0
    /\ lastDisable = 0
    /\ worked = 0
    /\ ppc = [p \in Handlers |-> IF p = Exporter THEN "export" ELSE "idle"]
    /\ pruns = [p \in Handlers |-> 0]
    /\ file = [p \in Handlers |-> NoEntries]
    /\ \E st \in Snapshots :
          stats = [p \in Handlers |-> IF p = Exporter THEN st ELSE NoStats]
    /\ snap = [p \in Handlers |-> NoSnap]
    /\ table = [p \in Handlers |-> <<>>]
    /\ responses = <<>>
    /\ snapshots = 0
    /\ todo = [p \in Handlers |-> {}]
    /\ span = [p \in Handlers |-> NoSpan]
    /\ obs = [p \in Handlers |-> EmptyBag]
    /\ mark = [p \in Handlers |-> EmptyBag]
    /\ before = [p \in Handlers |-> NoStats]
    /\ last = [p \in Handlers |-> NoCall]
    /\ exports = [p \in Handlers |-> 0]

\* The caller keeps the result of the call and calls the exporter again on
\* the same object.
ExportAgain(p) ==
    /\ ppc[p] = "respond"
    /\ exports[p] < MaxExports
    /\ last' = [last EXCEPT ![p] = [made |-> TRUE, stats |-> before[p],
                                    span |-> span[p], obs |-> Emitted(p)]]
    /\ ppc' = [ppc EXCEPT ![p] = "export"]
    /\ UNCHANGED <<profiler, lastDisable, worked, hvars, pruns, file, stats,
                   snap, table, responses, snapshots, todo, span, obs, mark,
                   before, exports>>

NextExport ==
    \E p \in Handlers :
       \/ ExportBegin(p)
       \/ ExportRecord(p)
       \/ ExportTotal(p)
       \/ ExportAgain(p)

SpecExport == InitExport /\ [][NextExport]_vars

\* ================================================================ claims
\* Number of observations of `metric` in a bag of observations.
MetricCount(bag, metric) ==
    LET sel == {o \in BagToSet(bag) : o.metric = metric}
    IN  BagCardinality([o \in sel |-> bag[o]])

\* Number of observations of `metric` made for the record `func`.
FuncCount(bag, metric, func) ==
    LET sel == {o \in BagToSet(bag) : o.metric = metric /\ o.func = func}
    IN  BagCardinality([o \in sel |-> bag[o]])

Finished(p) == ppc[p] = "respond"
Records(p) == DOMAIN stats[p].stats

\* C1: one call of export_profile_stats on a snapshot of n records makes
\* exactly 2n + 1 observations: one profile.function.calls and one
\* profile.function.time per record and one profile.total.time, whatever
\* the record values, also for n = 0.
C1_ObservationCount ==
    \A p \in Handlers :
       Finished(p) =>
          LET n == Cardinality(Records(p))
              e == Emitted(p)
          IN  /\ BagCardinality(e) = 2 * n + 1
              /\ MetricCount(e, "profile.function.calls") = n
              /\ MetricCount(e, "profile.function.time") = n
              /\ MetricCount(e, "profile.total.time") = 1
              /\ \A func \in Records(p) :
                    /\ FuncCount(e, "profile.function.calls", func) = 1
                    /\ FuncCount(e, "profile.function.time", func) = 1

\* An export of two records, one of them all-zero, has ended with five
\* observations.
C1_Witness ==
    \E p \in Handlers :
       /\ Finished(p)
       /\ Cardinality(Records(p)) = 2
       /\ \E func \in Records(p) :
             stats[p].stats[func] = [cc |-> 0, nc |-> 0, tt |-> 0, ct |-> 0]
       /\ BagCardinality(Emitted(p)) = 5

\* An export of no record has ended with the single total observation.
C1_WitnessEmpty ==
    \E p \in Handlers :
       /\ Finished(p)
       /\ Records(p) = {}
       /\ BagCardinality(Emitted(p)) = 1

\* The observation the reference projection makes for a record.
Expected(metric, value, func) ==
    [metric |-> metric, value |-> value,
     attributes |-> Attributes(func[3], func[1]), func |-> func]

\* C2: the observations are the reference projection of the snapshot: per
\* record a call-count observation whose value is the record's total call
\* count (nc, not the primitive count cc) and a time observation of
\* tt * 1000, both tagged with the function's name and file; one untagged
\* total of total_tt * 1000 taken from the aggregate.
C2_ReferenceProjection ==
    \A p \in Handlers :
       Finished(p) =>
          /\ \A func \in {f \in Records(p) : Len(f) = 3} :
                LET rec == stats[p].stats[func]
                IN  /\ CopiesIn(Expected("profile.function.calls", rec.nc, func),
                                Emitted(p)) = 1
                    /\ CopiesIn(Expected("profile.function.time", Ms(rec.tt), func),
                                Emitted(p)) = 1
          /\ CopiesIn([metric |-> "profile.total.time",
                       value |-> Ms(stats[p].total_tt),
                       attributes |-> NoAttributes, func |-> NoFunc],
                      Emitted(p)) = 1

\* What does hold of C2: the same projection with the primitive call count.
C2_ProjectionWithPrimitiveCalls ==
    \A p \in Handlers :
       Finished(p) =>
          /\ \A func \in {f \in Records(p) : Len(f) = 3} :
                LET rec == stats[p].stats[func]
                IN  /\ CopiesIn(Expected("profile.function.calls", rec.cc, func),
                                Emitted(p)) = 1
                    /\ CopiesIn(Expected("profile.function.time", Ms(rec.tt), func),
                                Emitted(p)) = 1
          /\ CopiesIn([metric |-> "profile.total.time",
                       value |-> Ms(stats[p].total_tt),
                       attributes |-> NoAttributes, func |-> NoFunc],
                      Emitted(p)) = 1

\* The observations made for the records whose key is not a 3-tuple.
FallbackObservations(p) ==
    {o \in BagToSet(Emitted(p)) : o.func \in Records(p) /\ Len(o.func) # 3}

\* C5: for a record whose key has not exactly 3 components the export makes
\* the record's two observations, with a non-empty synthesized name and with
\* the source location absent (no placeholder standing in for a file).
C5_FallbackLocationAbsent ==
    \A p \in Handlers :
       Finished(p) =>
          /\ \A func \in {f \in Records(p) : Len(f) # 3} :
                /\ FuncCount(Emitted(p), "profile.function.calls", func) = 1
                /\ FuncCount(Emitted(p), "profile.function.time", func) = 1
          /\ \A o \in FallbackObservations(p) :
                /\ o.attributes["function.name"] # ""
                /\ "function.file" \notin DOMAIN o.attributes

\* C5 as amended: the two observations are made, the name is the
\* stringified key and function.file is the placeholder "unknown".
C5_FallbackFileUnknown ==
    \A p \in Handlers :
       Finished(p) =>
          /\ \A func \in {f \in Records(p) : Len(f) # 3} :
                /\ FuncCount(Emitted(p), "profile.function.calls", func) = 1
                /\ FuncCount(Emitted(p), "profile.function.time", func) = 1
          /\ \A o \in FallbackObservations(p) :
                /\ o.attributes["function.name"] = StrOf(o.func)
                /\ o.attributes["function.name"] # ""
                /\ o.attributes["function.file"] = "unknown"

\* An export of a snapshot with a 2-component key has ended.
C5_Witness ==
    \E p \in Handlers :
       /\ Finished(p)
       /\ \E o \in FallbackObservations(p) : Len(o.func) = 2

\* C7: a second call of export_profile_stats on the same, unchanged
\* snapshot sets the same two span attributes and makes the same multiset of
\* observations as the first, and no call changes the snapshot.
C7_ExportIdempotent ==
    \A p \in Handlers :
       Finished(p) =>
          /\ stats[p] = before[p]
          /\ (last[p].made /\ last[p].stats = stats[p]) =>
                /\ span[p] = last[p].span
                /\ Emitted(p) = last[p].obs

\* The second export of a snapshot with records has ended.
C7_Witness ==
    \E p \in Handlers :
       /\ Finished(p)
       /\ last[p].made
       /\ exports[p] = 2
       /\ Records(p) # {}
       /\ last[p].stats = stats[p]

\* C3: a /profile request that finds zero recorded functions in the
\* collector does not end in an error: its snapshot has no records and
\* total_calls = 0, the export runs and the response carries total_calls = 0.
C3_EmptyProfileSucceeds ==
    \A p \in Handlers :
       (ppc[p] \notin {"idle", "dump_disable", "dump_snapshot", "load"}
        /\ DOMAIN file[p] = {}) =>
          /\ ppc[p] # "failed"
          /\ stats[p].total_calls = 0
          /\ Records(p) = {}

\* A step of the snapshot building of some /profile request (lines 139-147).
SnapshotStep ==
    \E p \in Handlers :
       /\ ppc[p] \in {"dump_disable", "dump_snapshot", "load"}
       /\ ppc'[p] # ppc[p]

\* C4: building the snapshot leaves the shared collector as it was, its
\* enabled/disabled state and its entries, in every interleaving.
C4_SnapshotLeavesCollector == [][SnapshotStep => profiler' = profiler]_vars

\* What does hold of C4: the snapshot leaves the collected entries alone and
\* never switches the collector on.
C4_SnapshotKeepsEntries ==
    [][SnapshotStep => /\ profiler'.entries = profiler.entries
                       /\ (profiler'.enabled => profiler.enabled)]_vars

C8_ReEnableIsNoOp == raised = 0

AllIdle == \A w \in Workers : hpc[w] = "idle"

RECURSIVE Total(_, _)
Total(f, dom) ==
    IF dom = {} THEN 0
    ELSE LET x == CHOOSE y \in dom : TRUE IN f[x] + Total(f, dom \ {x})

\* C9: every execution of the work unit makes, in this order, enable, work,
\* disable, one function.duration observation and one function.calls
\* increment; once the requests to / are over, function.calls and the number
\* of function.duration observations equal the number of requests and the
\* collector is disabled.
C9_WorkUnitSequence ==
    /\ \A w \in Workers :
          (hpc[w] = "idle" /\ hruns[w] > 0) =>
             ops[w] = <<"enable", "work", "disable", "duration", "calls">>
    /\ AllIdle =>
          /\ function_calls = Total(hruns, Workers)
          /\ BagCardinality(function_duration) = Total(hruns, Workers)
          /\ ~profiler.enabled

\* What does hold of C9: the same with the requests that returned.
C9_ReturnedRequests ==
    /\ \A w \in Workers :
          (hpc[w] \in {"idle", "return"} /\ hruns[w] > 0) =>
             ops[w] \in {<<"enable", "work", "disable", "duration", "calls">>,
                         <<"enable raised">>}
    /\ AllIdle =>
          /\ function_calls = returned
          /\ BagCardinality(function_duration) = returned
          /\ returned + raised = Total(hruns, Workers)
          /\ ~profiler.enabled

\* C10: enable -> work -> disable is not atomic: a request can be at its
\* work, after its enable and before its disable, with the collector
\* switched off; the collector was then switched off by another request
\* (the disable of a GET / or the snapshot of a GET /profile).
C10_CutOffByOtherRequest ==
    \A w \in Workers :
       (hpc[w] \in {"sum", "sleep"} /\ ~profiler.enabled) =>
          lastDisable \in (Workers \cup Handlers) \ {w}

\* A request is at its sleep with its sum not collected, the collector off,
\* switched off by the disable of another GET / request.
C10_Witness ==
    \E w \in Workers : \E v \in Workers \ {w} :
       /\ hpc[w] = "sleep"
       /\ lost[w] = 1
       /\ ~profiler.enabled
       /\ lastDisable = v

\* The same, the collector switched off by the snapshot of a GET /profile.
C10_WitnessProfile ==
    \E w \in Workers : \E p \in Handlers :
       /\ hpc[w] = "sleep"
       /\ lost[w] = 1
       /\ ~profiler.enabled
       /\ lastDisable = p

====
